---- MODULE Spec2Model ----
(***************************************************************************)
(* GameOfLifeGpt (src/src/main.c): the sparse cell set, the neighbour      *)
(* counter, the generation step, the pattern loader, the viewport and the  *)
(* terminal / SDL driver loops, as state machines.                         *)
(*                                                                         *)
(* Data representation                                                     *)
(*   struct cell_set   [buckets, capacity, size]; buckets, an array of     *)
(*                     capacity chain heads, is the function from the      *)
(*                     indices of its non-NULL heads to their chains, a    *)
(*                     chain being the sequence of nodes from the head     *)
(*                     along ->next; a calloc'ed array is the empty        *)
(*                     function, the NULL array pointer is NULL.           *)
(*   struct count_map  [buckets, capacity], chains of [x, y, count].       *)
(*   uint64_t          a tuple of 8 bytes, least significant first.        *)
(*   int               an integer in INT_MIN..INT_MAX; a signed overflow   *)
(*                     is undefined behaviour, whose outcomes are the      *)
(*                     two's complement wrap and the trap.                 *)
(***************************************************************************)
EXTENDS Integers, Sequences, FiniteSets, TLC

VARIABLES
    life,         \* struct life_state of main(): [live, generation]
    twin,         \* a second struct life_state (step harness): same cells, other layout
    view,         \* struct view_state of the driver: [center_x, center_y, scale]
    paused,       \* bool paused
    single_step,  \* bool single_step
    running,      \* bool running
    use_gui,      \* bool use_gui (-g)
    file,         \* the pattern file named by -f ("none": no -f)
    pc,           \* position of the process
    tick,         \* ghost: the iteration of the driver loop and what happened in it
    screen,       \* what the last render pass read: [live, generation, view]
    hist          \* ghost: the operation last applied and what it was applied to

vars == <<life, twin, view, paused, single_step, running, use_gui, file, pc,
          tick, screen, hist>>

-----------------------------------------------------------------------------
(* Program constants and the int type *)

INITIAL_HASH_CAPACITY == 2048
COUNT_HASH_CAPACITY == 4096
INT_MAX == 2147483647
INT_MIN == -INT_MAX - 1

\* a + b in int: does it overflow
IntAddOverflows(a, b) ==
    \/ b > 0 /\ a > INT_MAX - b
    \/ b < 0 /\ a < INT_MIN - b

\* a + b reduced modulo 2^32 into INT_MIN..INT_MAX (the wrapping outcome)
IntAddWrap(a, b) ==
    IF b > 0 /\ a > INT_MAX - b THEN (a + INT_MIN) + (b + INT_MIN)
    ELSE IF b < 0 /\ a < INT_MIN - b THEN (a - INT_MIN) + (b - INT_MIN)
    ELSE a + b

-----------------------------------------------------------------------------
(* Loops.  TLC evaluates recursion on the Java stack, so a loop over        *)
(* thousands of buckets is folded by halving its range.                     *)

\* TRUE; TLC computes v here, before the loop goes on, instead of deferring it
Forced(v) == {v} # {}

\* a local variable: { T v = e; Body } is With(e, LAMBDA v : Body)
With(v, Body(_)) == Body(v)

\* for (i = lo; i <= hi; ++i) acc = Body(acc, i)
ForRange(Body(_, _), lo, hi, acc0) ==
    LET RECURSIVE R(_, _, _)
        R(acc, l, h) ==
            IF l > h THEN acc
            ELSE IF l = h THEN Body(acc, l)
            ELSE LET m == (l + h) \div 2
                     left == R(acc, l, m)
                 IN IF Forced(left) THEN R(left, m + 1, h) ELSE acc
    IN R(acc0, lo, hi)

\* while (Cond(s)) s = Body(s): runs of 1, 2, 4, ... iterations, each run halved
While(Cond(_), Body(_), s0) ==
    LET RECURSIVE Run(_, _)
        Run(s, n) ==
            IF ~Cond(s) THEN s
            ELSE IF n = 1 THEN Body(s)
            ELSE LET half == Run(s, n \div 2)
                 IN IF Forced(half) THEN Run(half, n - (n \div 2)) ELSE s
        RECURSIVE Grow(_, _)
        Grow(s, n) ==
            IF ~Cond(s) THEN s
            ELSE LET t == Run(s, n)
                 IN IF Forced(t) THEN Grow(t, 2 * n) ELSE s
    IN Grow(s0, 1)

\* the least element of the set of integers S within lo..hi, or hi + 1 when there is none
LeastIn(S, lo, hi) ==
    LET RECURSIVE R(_, _, _)
        R(T, l, h) ==
            IF l = h THEN l
            ELSE LET m == (l + h) \div 2
                     low == {i \in T : i <= m}
                 IN IF low # {} THEN R(low, l, m) ELSE R(T, m + 1, h)
        within == {i \in S : lo <= i /\ i <= hi}
    IN IF within = {} THEN hi + 1 ELSE R(within, lo, hi)

\* the elements of the set of integers S within lo..hi, in increasing order
Ascending(S, lo, hi) ==
    LET RECURSIVE R(_, _, _)
        R(T, l, h) ==
            IF T = {} THEN <<>>
            ELSE IF l = h THEN <<l>>
            ELSE LET m == (l + h) \div 2
                 IN R({i \in T : i <= m}, l, m) \o R({i \in T : i > m}, m + 1, h)
    IN R({i \in S : lo <= i /\ i <= hi}, lo, hi)

(* Arrays of chain heads *)

\* the array pointer NULL: no array (an array's indices are never negative)
NULL == [i \in {-1} |-> <<>>]

\* calloc(capacity, sizeof(pointer)): every head NULL
Calloc == [i \in {} |-> <<>>]

\* buckets[i], <<>> for a NULL head
At(buckets, i) == IF i \in DOMAIN buckets THEN buckets[i] ELSE <<>>

\* node->next = buckets[i]; buckets[i] = node
Push(buckets, i, node) == (i :> (<<node>> \o At(buckets, i))) @@ buckets

\* for (i = 0; i < capacity; ++i) acc = Body(acc, i), for a Body that is a loop over
\* the chain buckets[i]: it does nothing at a NULL head, and the heads that are not
\* NULL are visited in index order
ForBuckets(Body(_, _), buckets, capacity, acc0) ==
    LET order == Ascending(DOMAIN buckets, 0, capacity - 1)
    IN ForRange(LAMBDA acc, j : Body(acc, order[j]), 1, Len(order), acc0)

-----------------------------------------------------------------------------
(* mix64 and the bucket index: 64-bit arithmetic on bytes *)

RECURSIVE XorBits(_, _)
XorBits(a, b) ==
    IF a = 0 THEN b
    ELSE IF b = 0 THEN a
    ELSE ((a + b) % 2) + 2 * XorBits(a \div 2, b \div 2)

XorNibble == [a \in 0..15 |-> [b \in 0..15 |-> XorBits(a, b)]]

Xor8(a, b) == XorNibble[a \div 16][b \div 16] * 16 + XorNibble[a % 16][b % 16]

\* (uint32_t)v for an int v, as 4 bytes
U32Bytes(v) ==
    <<v % 256, (v \div 256) % 256, (v \div 65536) % 256, (v \div 16777216) % 256>>

\* x ^= x >> 33
XorShift33(x) ==
    << Xor8(x[1], (x[5] \div 2) + (x[6] % 2) * 128),
       Xor8(x[2], (x[6] \div 2) + (x[7] % 2) * 128),
       Xor8(x[3], (x[7] \div 2) + (x[8] % 2) * 128),
       Xor8(x[4], x[8] \div 2),
       x[5], x[6], x[7], x[8] >>

\* x *= k, modulo 2^64
Mul64(x, k) ==
    LET t1 == x[1]*k[1]
        t2 == x[1]*k[2] + x[2]*k[1] + (t1 \div 256)
        t3 == x[1]*k[3] + x[2]*k[2] + x[3]*k[1] + (t2 \div 256)
        t4 == x[1]*k[4] + x[2]*k[3] + x[3]*k[2] + x[4]*k[1] + (t3 \div 256)
        t5 == x[1]*k[5] + x[2]*k[4] + x[3]*k[3] + x[4]*k[2] + x[5]*k[1] + (t4 \div 256)
        t6 == x[1]*k[6] + x[2]*k[5] + x[3]*k[4] + x[4]*k[3] + x[5]*k[2] + x[6]*k[1]
              + (t5 \div 256)
        t7 == x[1]*k[7] + x[2]*k[6] + x[3]*k[5] + x[4]*k[4] + x[5]*k[3] + x[6]*k[2]
              + x[7]*k[1] + (t6 \div 256)
        t8 == x[1]*k[8] + x[2]*k[7] + x[3]*k[6] + x[4]*k[5] + x[5]*k[4] + x[6]*k[3]
              + x[7]*k[2] + x[8]*k[1] + (t7 \div 256)
    IN <<t1 % 256, t2 % 256, t3 % 256, t4 % 256, t5 % 256, t6 % 256, t7 % 256, t8 % 256>>

\* 0xff51afd7ed558ccd and 0xc4ceb9fe1a85ec53
MixMul1 == <<205, 140, 85, 237, 215, 175, 81, 255>>
MixMul2 == <<83, 236, 133, 26, 254, 185, 206, 196>>

mix64(x) == XorShift33(Mul64(XorShift33(Mul64(XorShift33(x), MixMul1)), MixMul2))

\* ((uint64_t)(uint32_t)x << 32) ^ (uint32_t)y
HashKey(x, y) == U32Bytes(y) \o U32Bytes(x)

\* h % m for a 64-bit h and 0 < m < 2^22
Mod64(h, m) ==
    LET r8 == h[8] % m
        r7 == (r8 * 256 + h[7]) % m
        r6 == (r7 * 256 + h[6]) % m
        r5 == (r6 * 256 + h[5]) % m
        r4 == (r5 * 256 + h[4]) % m
        r3 == (r4 * 256 + h[3]) % m
        r2 == (r3 * 256 + h[2]) % m
    IN (r2 * 256 + h[1]) % m

cell_hash(set, x, y) == Mod64(mix64(HashKey(x, y)), set.capacity)

-----------------------------------------------------------------------------
(* struct cell_set *)

cell_set_init(capacity) ==
    [buckets |-> Calloc, capacity |-> capacity, size |-> 0]

\* a clear that goes back to the initial capacity
cell_set_clear_shrinks(set) ==
    IF set.buckets = NULL THEN set
    ELSE [set EXCEPT !.buckets = Calloc, !.size = 0, !.capacity = INITIAL_HASH_CAPACITY]

\* every chain freed and its head set to NULL
cell_set_clear(set) ==
    IF set.buckets = NULL THEN set
    ELSE [set EXCEPT !.buckets = Calloc, !.size = 0]

cell_set_destroy(set) ==
    [buckets |-> NULL, capacity |-> 0, size |-> 0]

\* contains that looks at the head of the chain only
cell_set_contains_head_only(set, x, y) ==
    IF set.buckets = NULL THEN FALSE
    ELSE With(At(set.buckets, cell_hash(set, x, y)),
              LAMBDA chain : chain # <<>> /\ chain[1].x = x /\ chain[1].y = y)

cell_set_contains(set, x, y) ==
    IF set.buckets = NULL THEN FALSE
    ELSE With(At(set.buckets, cell_hash(set, x, y)),
              LAMBDA chain : \E k \in 1..Len(chain) : chain[k].x = x /\ chain[k].y = y)

\* an expand that leaves every node at its old bucket index
cell_set_expand_keeps_index(set) ==
    [set EXCEPT !.capacity = IF @ # 0 THEN @ * 2 ELSE INITIAL_HASH_CAPACITY]

\* every node of every old chain, head first, is pushed on the head of its new bucket
cell_set_expand(set) ==
    LET new_capacity == IF set.capacity # 0 THEN set.capacity * 2 ELSE INITIAL_HASH_CAPACITY
        Relink(nb, node) ==
            Push(nb, Mod64(mix64(HashKey(node.x, node.y)), new_capacity), node)
        Chain(nb, i) ==
            ForRange(LAMBDA b, k : Relink(b, set.buckets[i][k]), 1, Len(set.buckets[i]), nb)
        new_buckets == ForBuckets(Chain, set.buckets, set.capacity, Calloc)
    IN [set EXCEPT !.buckets = new_buckets, !.capacity = new_capacity]

\* insert without the membership test
cell_set_insert_unchecked(set, x, y) ==
    With(IF (set.size + 1) * 2 > set.capacity THEN cell_set_expand(set) ELSE set,
         LAMBDA grown :
             [grown EXCEPT !.buckets = Push(@, cell_hash(grown, x, y), [x |-> x, y |-> y]),
                           !.size = @ + 1])

\* insert with the growth test on the size before the insertion
cell_set_insert_grows_late(set, x, y) ==
    IF cell_set_contains(set, x, y) THEN set
    ELSE With(IF set.size * 2 > set.capacity THEN cell_set_expand(set) ELSE set,
              LAMBDA grown :
                  [grown EXCEPT
                     !.buckets = Push(@, cell_hash(grown, x, y), [x |-> x, y |-> y]),
                     !.size = @ + 1])

\* grown: the set after the growth, if there is one
cell_set_insert(set, x, y) ==
    IF cell_set_contains(set, x, y) THEN set
    ELSE With(IF (set.size + 1) * 2 > set.capacity THEN cell_set_expand(set) ELSE set,
              LAMBDA grown :
                  [grown EXCEPT
                     !.buckets = Push(@, cell_hash(grown, x, y), [x |-> x, y |-> y]),
                     !.size = @ + 1])

cell_set_count(set) == set.size

\* an iterator that begins its scan at bucket 1
cell_set_iter_from_one(set) ==
    LET first == LeastIn(DOMAIN set.buckets, 1, set.capacity - 1)
    IN IF set.capacity > 0 /\ first < set.capacity
       THEN [bucket |-> first, node |-> set.buckets[first]]
       ELSE [bucket |-> 0, node |-> <<>>]

\* struct cell_iterator: [bucket, node], node the rest of the chain from the current
\* node on (<<>> is NULL); the set is passed beside it
cell_set_iter(set) ==
    LET first == LeastIn(DOMAIN set.buckets, 0, set.capacity - 1)
    IN IF set.capacity > 0 /\ first < set.capacity
       THEN [bucket |-> first, node |-> set.buckets[first]]
       ELSE [bucket |-> 0, node |-> <<>>]

\* an iterator that leaves a chain after its head
cell_iter_next_head_only(set, it) ==
    LET none == [ok |-> FALSE, x |-> 0, y |-> 0, it |-> it]
        Yield(j) == [ok |-> TRUE, x |-> j.node[1].x, y |-> j.node[1].y,
                     it |-> [j EXCEPT !.node = <<>>]]
    IN IF set.buckets = NULL THEN none
       ELSE LET i == IF it.node = <<>>
                     THEN LeastIn(DOMAIN set.buckets, it.bucket + 1, set.capacity - 1)
                     ELSE it.bucket
            IN IF i < set.capacity /\ i \in DOMAIN set.buckets
               THEN Yield([bucket |-> i, node |-> set.buckets[i]])
               ELSE none

\* returns [ok, x, y, it]
cell_iter_next(set, it) ==
    LET none == [ok |-> FALSE, x |-> 0, y |-> 0, it |-> it]
        Yield(j) == [ok |-> TRUE, x |-> j.node[1].x, y |-> j.node[1].y,
                     it |-> [j EXCEPT !.node = Tail(@)]]
    IN IF set.buckets = NULL THEN none
       ELSE IF it.node = <<>>
       THEN LET i == LeastIn(DOMAIN set.buckets, it.bucket + 1, set.capacity - 1)
            IN IF it.bucket + 1 < set.capacity /\ i < set.capacity
               THEN Yield([bucket |-> i, node |-> set.buckets[i]])
               ELSE none
       ELSE Yield(it)

\* the set of coordinates stored in the chains
Cells(set) ==
    IF set.buckets = NULL THEN {}
    ELSE UNION { { <<set.buckets[i][k].x, set.buckets[i][k].y>> :
                   k \in 1..Len(set.buckets[i]) } : i \in DOMAIN set.buckets }

-----------------------------------------------------------------------------
(* struct count_map *)

count_hash(map, x, y) == Mod64(mix64(HashKey(x, y)), map.capacity)

count_map_init(capacity) ==
    [buckets |-> Calloc, capacity |-> capacity]

\* the entry for (x, y), created with count 0 at the head of its chain when there is
\* none: [map, index, k], the entry being map.buckets[index][k]
count_map_get(map, x, y) ==
    With(count_hash(map, x, y), LAMBDA index :
        LET chain == At(map.buckets, index)
            found == {j \in 1..Len(chain) : chain[j].x = x /\ chain[j].y = y}
            entry == [x |-> x, y |-> y, count |-> 0]
        IN IF found # {}
           THEN [map |-> map, index |-> index, k |-> LeastIn(found, 1, Len(chain))]
           ELSE [map |-> [map EXCEPT !.buckets = Push(@, index, entry)],
                 index |-> index, k |-> 1])

count_map_increment(map, x, y) ==
    With(count_map_get(map, x, y),
         LAMBDA got : [got.map EXCEPT !.buckets[got.index][got.k].count = @ + 1])

-----------------------------------------------------------------------------
(* struct life_state *)

life_state_init ==
    [live |-> cell_set_init(INITIAL_HASH_CAPACITY), generation |-> 0]

life_state_clear(state) ==
    [live |-> cell_set_clear(state.live), generation |-> 0]

life_state_destroy(state) ==
    [state EXCEPT !.live = cell_set_destroy(@)]

\* the offsets without the skip of (0, 0)
NeighbourOffsets_with_self ==
    << <<-1, -1>>, <<0, -1>>, <<1, -1>>, <<-1, 0>>, <<0, 0>>, <<1, 0>>,
       <<-1, 1>>, <<0, 1>>, <<1, 1>> >>

\* (dx, dy) in the order of the two for loops, dy outermost, (0, 0) skipped
NeighbourOffsets ==
    << <<-1, -1>>, <<0, -1>>, <<1, -1>>, <<-1, 0>>, <<1, 0>>, <<-1, 1>>, <<0, 1>>, <<1, 1>> >>

\* the counting loop: every live cell, in iteration order, increments its 8 neighbours.
\* x + dx and y + dy are int additions: overflow records that one overflowed, and the
\* counts are those of the wrapping outcome.
CountNeighbours(live) ==
    LET Bump(c, x, y, k) ==
            LET dx == NeighbourOffsets[k][1]
                dy == NeighbourOffsets[k][2]
            IN [map |-> count_map_increment(c.map, IntAddWrap(x, dx), IntAddWrap(y, dy)),
                overflow |-> c.overflow \/ IntAddOverflows(x, dx) \/ IntAddOverflows(y, dy)]
        Body(s) ==
            With(ForRange(LAMBDA a, k : Bump(a, s.r.x, s.r.y, k), 1, Len(NeighbourOffsets),
                          [map |-> s.map, overflow |-> s.overflow]),
                 LAMBDA c : [r |-> cell_iter_next(live, s.r.it),
                             map |-> c.map, overflow |-> c.overflow])
    IN While(LAMBDA s : s.r.ok, Body,
             [r |-> cell_iter_next(live, cell_set_iter(live)),
              map |-> count_map_init(COUNT_HASH_CAPACITY), overflow |-> FALSE])

\* the rule without the survival on 2
Survives_birth_only(live, entry) ==
    entry.count = 3

\* the rule applied to one counter entry, against the current live set
Survives(live, entry) ==
    LET alive == cell_set_contains(live, entry.x, entry.y)
    IN entry.count = 3 \/ (alive /\ entry.count = 2)

\* the second loop: the next set, built from the counter bucket by bucket.
\* [next, trace]: trace holds the capacity and the size of next after cell_set_init
\* and after every cell_set_insert of the loop
BuildNextTrace(live, counts) ==
    LET Sized(set) == [capacity |-> set.capacity, size |-> set.size]
        Entry(acc, entry) ==
            IF Survives(live, entry)
            THEN With(cell_set_insert(acc.next, entry.x, entry.y), LAMBDA next :
                     [next |-> next, trace |-> Append(acc.trace, Sized(next))])
            ELSE acc
        Bucket(acc, i) ==
            ForRange(LAMBDA a, k : Entry(a, counts.buckets[i][k]),
                     1, Len(counts.buckets[i]), acc)
    IN With(cell_set_init(live.capacity), LAMBDA next :
           ForBuckets(Bucket, counts.buckets, counts.capacity,
                      [next |-> next, trace |-> <<Sized(next)>>]))

BuildNext(live, counts) == BuildNextTrace(live, counts).next

\* [state, overflow, counts, trace]: the state after the step (on overflow, that of
\* the wrapping outcome), whether a coordinate addition overflowed, the counter as the
\* counting loop left it, and the trace of the next set
life_state_step(state) ==
    With(CountNeighbours(state.live), LAMBDA counted :
        With(BuildNextTrace(state.live, counted.map), LAMBDA built :
            [state |-> [live |-> built.next, generation |-> state.generation + 1],
             overflow |-> counted.overflow,
             counts |-> counted.map,
             trace |-> built.trace]))

-----------------------------------------------------------------------------
(* Pattern files.  A file is [exists, lines]; a line, as getline returns it     *)
(* without its final newline, is a sequence of runs [ch, n]: n times the        *)
(* character ch.                                                                *)

LiveChars == {"O", "o", "X", "1"}

\* the for loop over one line: [set, x, stop, overflow], x the column of the next
\* character.  x is an int: the ++x after column INT_MAX overflows, overflow records
\* it, and set and x are those of the wrapping outcome (the low 32 bits of the column).
ImportLine(set, line, y) ==
    LET Run(acc, r) ==
            IF acc.stop THEN acc
            ELSE IF r.ch \in {"\n", "\r"} THEN [acc EXCEPT !.stop = TRUE]
            ELSE IF r.ch \in LiveChars
            THEN [acc EXCEPT
                    !.set = ForRange(LAMBDA t, i : cell_set_insert(t, IntAddWrap(acc.x, i), y),
                                     0, r.n - 1, @),
                    !.x = IntAddWrap(@, r.n),
                    !.overflow = @ \/ IntAddOverflows(acc.x, r.n)]
            ELSE [acc EXCEPT !.x = IntAddWrap(@, r.n),
                             !.overflow = @ \/ IntAddOverflows(acc.x, r.n)]
    IN ForRange(LAMBDA acc, k : Run(acc, line[k]), 1, Len(line),
                [set |-> set, x |-> 0, stop |-> FALSE, overflow |-> FALSE])

\* an import that clears the state before it opens the file
life_state_import_file_clears_first(state, f) ==
    [ok |-> f.exists, state |-> life_state_clear(state), overflow |-> FALSE]

\* [ok, state, overflow]: ok is FALSE for the return value -1; overflow: a ++x of a
\* line overflowed, and state is that of the wrapping outcome.  (The files have fewer
\* than 2^31 lines: y += 1 does not overflow.)
life_state_import_file(state, f) ==
    IF ~f.exists THEN [ok |-> FALSE, state |-> state, overflow |-> FALSE]
    ELSE LET Line(acc, line) ==
                 IF line # <<>> /\ line[1].ch \in {"!", "#"} THEN acc
                 ELSE With(ImportLine(acc.set, line, acc.y), LAMBDA done :
                          [set |-> done.set, y |-> acc.y + 1,
                           overflow |-> acc.overflow \/ done.overflow])
             cleared == life_state_clear(state)
             read == ForRange(LAMBDA acc, k : Line(acc, f.lines[k]), 1, Len(f.lines),
                              [set |-> cleared.live, y |-> 0, overflow |-> FALSE])
         IN [ok |-> TRUE, state |-> [cleared EXCEPT !.live = read.set],
             overflow |-> read.overflow]

\* a line of single characters
Text(chars) == [k \in 1..Len(chars) |-> [ch |-> chars[k], n |-> 1]]

\* the glider.txt of the README
GliderFile ==
    [exists |-> TRUE,
     lines |-> << Text(<<".", "O", ".">>), Text(<<".", ".", "O">>), Text(<<"O", "O", "O">>) >>]

\* five lines with one live cell each, in the last column but one of int
EdgeFile ==
    [exists |-> TRUE,
     lines |-> [k \in 1..5 |-> << [ch |-> ".", n |-> INT_MAX - 1], [ch |-> "O", n |-> 1] >>]]

\* a line that is longer than INT_MAX characters: live at the columns INT_MAX and
\* INT_MAX + 2
LongLine ==
    << [ch |-> ".", n |-> INT_MAX], [ch |-> "O", n |-> 1], [ch |-> ".", n |-> 1],
       [ch |-> "O", n |-> 1] >>

\* a path fopen fails on
MissingFile == [exists |-> FALSE, lines |-> <<>>]

FileNamed(name) ==
    CASE name = "glider.txt" -> GliderFile
      [] name = "edge.txt" -> EdgeFile
      [] OTHER -> MissingFile

-----------------------------------------------------------------------------
(* struct view_state *)

view_init == [center_x |-> 0, center_y |-> 0, scale |-> 1]

\* zoom in without the floor
view_zoom_in_unfloored(v) ==
    [v EXCEPT !.scale = @ \div 2]

\* MAX(1, scale / 2); scale is never negative, so C's / is \div
view_zoom_in(v) ==
    [v EXCEPT !.scale = IF 1 > (v.scale \div 2) THEN 1 ELSE v.scale \div 2]

\* zoom out without the test of the scale
view_zoom_out_unclamped(v) ==
    [v EXCEPT !.scale = @ * 2]

view_zoom_out(v) ==
    IF v.scale < 1024 THEN [v EXCEPT !.scale = @ * 2] ELSE v

\* center += d * scale, two int additions: the wrapping outcome
view_pan(v, dx, dy) ==
    [v EXCEPT !.center_x = IntAddWrap(@, dx * v.scale),
              !.center_y = IntAddWrap(@, dy * v.scale)]

\* does one of the two additions of view_pan overflow
view_pan_overflows(v, dx, dy) ==
    \/ IntAddOverflows(v.center_x, dx * v.scale)
    \/ IntAddOverflows(v.center_y, dy * v.scale)

\* the keys the two driver loops dispatch on the viewport
ViewKeys == {"w", "s", "a", "d", "+", "=", "-", "r"}

\* the pan of a key, <<0, 0>> for a key that does not pan
PanOf(ch) ==
    CASE ch = "w" -> <<0, -1>>
      [] ch = "s" -> <<0, 1>>
      [] ch = "a" -> <<-1, 0>>
      [] ch = "d" -> <<1, 0>>
      [] OTHER -> <<0, 0>>

\* the viewport branches of the key dispatch
ViewAfterKey(v, ch) ==
    CASE ch \in {"w", "s", "a", "d"} -> view_pan(v, PanOf(ch)[1], PanOf(ch)[2])
      [] ch \in {"+", "="} -> view_zoom_in(v)
      [] ch = "-" -> view_zoom_out(v)
      [] ch = "r" -> view_init
      [] OTHER -> v

KeyOverflows(v, ch) ==
    ch \in {"w", "s", "a", "d"} /\ view_pan_overflows(v, PanOf(ch)[1], PanOf(ch)[2])

-----------------------------------------------------------------------------
(* The renderers.  A drawn grid is [rows, cols, alive, overflow]: alive, the    *)
(* set of the <<row, col>> drawn alive ('O', or a filled rectangle); overflow,  *)
(* whether an int addition of the pass overflowed, the grid being the one of    *)
(* the wrapping outcome.  A struct winsize is [ok, ws_row, ws_col]: ok, the     *)
(* ioctl did not return -1.                                                     *)

base_tile_pixels == 32

\* int origin = center - half * scale + index * scale: a subtraction and then an
\* addition in int (the products stay far inside int)
Origin(center, half, index, scale) ==
    IntAddWrap(IntAddWrap(center, -(half * scale)), index * scale)

OriginOverflows(center, half, index, scale) ==
    \/ IntAddOverflows(center, -(half * scale))
    \/ IntAddOverflows(IntAddWrap(center, -(half * scale)), index * scale)

\* the two loops over dy and dx of one screen cell, which end at the first live
\* world cell: the k-th call of cell_set_contains has dy = k / scale, dx = k % scale
BlockAlive(set, origin_x, origin_y, scale) ==
    LET last == scale * scale - 1
        hit(k) == cell_set_contains(set, IntAddWrap(origin_x, k % scale),
                                         IntAddWrap(origin_y, k \div scale))
    IN With(LeastIn({k \in 0..last : hit(k)}, 0, last), LAMBDA first :
         [alive |-> first <= last,
          overflow |-> \E k \in 0..last :
                          /\ k <= first
                          /\ \/ IntAddOverflows(origin_x, k % scale)
                             \/ IntAddOverflows(origin_y, k \div scale)])

\* the body of the loops over row and col: the screen cell at (row, col)
DrawCell(set, v, rows, cols, row, col) ==
    With(BlockAlive(set, Origin(v.center_x, cols \div 2, col, v.scale),
                         Origin(v.center_y, rows \div 2, row, v.scale), v.scale),
         LAMBDA block :
           [alive |-> block.alive,
            overflow |-> \/ block.overflow
                         \/ OriginOverflows(v.center_x, cols \div 2, col, v.scale)
                         \/ OriginOverflows(v.center_y, rows \div 2, row, v.scale)])

\* for (row = 0; row < rows; ++row) for (col = 0; col < cols; ++col): the same loops
\* in render_state_terminal and in render_state_sdl
DrawGrid(set, v, rows, cols) ==
    With([c \in (0..(rows - 1)) \X (0..(cols - 1)) |->
             DrawCell(set, v, rows, cols, c[1], c[2])],
         LAMBDA cell :
           [rows |-> rows,
            cols |-> cols,
            alive |-> {c \in DOMAIN cell : cell[c].alive},
            overflow |-> \E c \in DOMAIN cell : cell[c].overflow])

\* rows = ws_row > 4 ? ws_row - 4 : ws_row and cols = ws_col, of the window size the
\* ioctl gives, or of 24 and 80
render_state_terminal(state, v, ws) ==
    LET ws_row == IF ws.ok THEN ws.ws_row ELSE 24
        ws_col == IF ws.ok THEN ws.ws_col ELSE 80
    IN DrawGrid(state.live, v, IF ws_row > 4 THEN ws_row - 4 ELSE ws_row, ws_col)

\* tile_pixels = base_tile_pixels / scale, at least 1; cols and rows, the window in
\* tiles rounded up, at least 1 (window_w and window_h are positive at the call)
render_state_sdl(state, v, window_w, window_h) ==
    LET tile_pixels == IF base_tile_pixels \div v.scale < 1 THEN 1
                       ELSE base_tile_pixels \div v.scale
        cols == (window_w + tile_pixels - 1) \div tile_pixels
        rows == (window_h + tile_pixels - 1) \div tile_pixels
    IN DrawGrid(state.live, v, IF rows < 1 THEN 1 ELSE rows, IF cols < 1 THEN 1 ELSE cols)

-----------------------------------------------------------------------------
(* Values of the variables a specification does not use *)

NoTick == [n |-> 0, keys |-> 0, requests |-> 0, steps |-> 0, gen0 |-> 0, error |-> FALSE]
NoScreen == [live |-> {}, generation |-> 0, view |-> view_init, drawn |-> FALSE]

-----------------------------------------------------------------------------
(* The Life rule on the unbounded plane, which the claims compare the step      *)
(* with.  A coordinate of the plane is <<a, d>>: d away from the anchor         *)
(* INT_MIN (a = -1), 0 (a = 0) or INT_MAX (a = 1), so that the plane goes on    *)
(* beyond the ends of int.                                                      *)

PlaneOf(v) ==
    IF v > INT_MAX \div 2 THEN <<1, v - INT_MAX>>
    ELSE IF v < INT_MIN \div 2 THEN <<-1, v - INT_MIN>>
    ELSE <<0, v>>

PlaneCells(S) == { <<PlaneOf(c[1]), PlaneOf(c[2])>> : c \in S }

\* the 8 Moore neighbours of a cell of the plane
Moore(c) ==
    { << <<c[1][1], c[1][2] + dx>>, <<c[2][1], c[2][2] + dy>> >> :
      dx \in -1..1, dy \in -1..1 } \ {c}

LiveNeighbours(L, c) == Cardinality(Moore(c) \cap L)

\* B3/S23: the next generation of the live set L of the plane
LifeRule(L) ==
    { c \in L \cup UNION { Moore(d) : d \in L } :
        \/ LiveNeighbours(L, c) = 3
        \/ c \in L /\ LiveNeighbours(L, c) = 2 }

-----------------------------------------------------------------------------
(* Spec: main(), from the parsed options to the exit, with run_terminal or      *)
(* run_gui.  The delay between two ticks is not modelled.                       *)
(*   pc  "main"   before the load        "input"  in the read / poll loop       *)
(*       "run"    before run_*           "step"   before the step phase         *)
(*       "render" before the render      "exit"   run_* has returned            *)
(*       "done", "failed"  main has returned     "trapped"  overflow trap       *)
(*   tick  n: iterations begun; keys: events read in the run; requests: 'n'     *)
(*         read in this iteration; steps: life_state_step calls in it; gen0:    *)
(*         the generation at its start; error: read() failed in it              *)

\* iterations of the driver loop in one run, and events read in one run
MaxTicks == 3
MaxKeys == 3

DriverFiles == {"none", "glider.txt", "edge.txt", "missing.txt"}

\* the events of the run: keys, and the window's close button
Events == {"q", "p", "n", "-", "SDL_QUIT"}

Init ==
    /\ life = life_state_init
    /\ twin = life_state_init
    /\ view = view_init
    /\ paused = FALSE
    /\ single_step = FALSE
    /\ running = TRUE
    /\ use_gui \in BOOLEAN
    /\ file \in DriverFiles
    /\ pc = "main"
    /\ tick = NoTick
    /\ screen = NoScreen
    /\ hist = [op |-> "none", loaded |-> {}]

\* main: if (file_path) life_state_import_file, and on -1 destroy and EXIT_FAILURE
Load ==
    /\ pc = "main"
    /\ \E got \in { IF file = "none" THEN [ok |-> TRUE, state |-> life]
                      ELSE life_state_import_file(life, FileNamed(file)) } :
          /\ life' = IF got.ok THEN got.state ELSE life_state_destroy(life)
          /\ pc' = IF got.ok THEN "run" ELSE "failed"
          /\ hist' = [op |-> "load", loaded |-> Cells(got.state.live)]
    /\ UNCHANGED <<twin, view, paused, single_step, running, use_gui, file, tick, screen>>

FirstTick == [n |-> 1, keys |-> 0, requests |-> 0, steps |-> 0,
              gen0 |-> life.generation, error |-> FALSE]

\* what a render pass reads
Rendered == [live |-> Cells(life.live), generation |-> life.generation,
             view |-> view, drawn |-> TRUE]

\* run_terminal up to the loop: the locals, and the render before the loop
StartTerminal ==
    /\ pc = "run"
    /\ ~use_gui
    /\ view' = view_init
    /\ paused' = FALSE
    /\ single_step' = FALSE
    /\ running' = TRUE
    /\ screen' = [Rendered EXCEPT !.view = view_init]
    /\ tick' = FirstTick
    /\ pc' = "input"
    /\ UNCHANGED <<life, twin, use_gui, file, hist>>

\* run_gui up to the loop: the window and the renderer are there, the locals
StartGui ==
    /\ pc = "run"
    /\ use_gui
    /\ view' = view_init
    /\ paused' = FALSE
    /\ single_step' = FALSE
    /\ running' = TRUE
    /\ tick' = FirstTick
    /\ pc' = "input"
    /\ UNCHANGED <<life, twin, use_gui, file, screen, hist>>

\* run_gui: SDL_Init, SDL_CreateWindow or SDL_CreateRenderer fails
GuiInitFails ==
    /\ pc = "run"
    /\ use_gui
    /\ pc' = "exit"
    /\ UNCHANGED <<life, twin, view, paused, single_step, running, use_gui, file, tick,
                   screen, hist>>

\* one character read, or one event polled, and its branch of the dispatch.  'q' leaves
\* the read loop of the terminal; the poll loop of the window goes on after it.
\* (No pan of these runs reaches the ends of int: SpecView has the overflow.)
Key(ch) ==
    /\ pc = "input"
    /\ tick.n <= MaxTicks
    /\ tick.keys < MaxKeys
    /\ ch = "SDL_QUIT" => use_gui
    /\ running' = IF ch \in {"q", "SDL_QUIT"} THEN FALSE ELSE running
    /\ paused' = IF ch = "p" THEN ~paused ELSE paused
    /\ single_step' = IF ch = "n" THEN TRUE ELSE single_step
    /\ view' = ViewAfterKey(view, ch)
    /\ pc' = IF ch = "q" /\ ~use_gui THEN "step" ELSE "input"
    /\ tick' = [tick EXCEPT !.keys = @ + 1,
                            !.requests = IF ch = "n" THEN @ + 1 ELSE @]
    /\ UNCHANGED <<life, twin, use_gui, file, screen, hist>>

\* read returns 0, or -1 with EAGAIN or EWOULDBLOCK; SDL_PollEvent returns 0
EndInput ==
    /\ pc = "input"
    /\ tick.n <= MaxTicks
    /\ pc' = "step"
    /\ UNCHANGED <<life, twin, view, paused, single_step, running, use_gui, file, tick,
                   screen, hist>>

\* read returns -1 with another errno: running = false and break out of the loop
ReadError ==
    /\ pc = "input"
    /\ tick.n <= MaxTicks
    /\ ~use_gui
    /\ running' = FALSE
    /\ tick' = [tick EXCEPT !.error = TRUE]
    /\ pc' = "exit"
    /\ UNCHANGED <<life, twin, view, paused, single_step, use_gui, file, screen, hist>>

\* the step phase without single_step = false
StepPhase_keeps_request ==
    /\ pc = "step"
    /\ IF ~paused \/ single_step
       THEN /\ life' = life_state_step(life).state
            /\ tick' = [tick EXCEPT !.steps = @ + 1]
       ELSE UNCHANGED <<life, tick>>
    /\ pc' = "render"
    /\ UNCHANGED <<twin, view, paused, single_step, running, use_gui, file, screen, hist>>

\* the step phase with a reset of the viewport
StepPhase_recentres ==
    /\ pc = "step"
    /\ IF ~paused \/ single_step
       THEN /\ life' = life_state_step(life).state
            /\ single_step' = FALSE
            /\ view' = view_init
            /\ tick' = [tick EXCEPT !.steps = @ + 1]
       ELSE UNCHANGED <<life, single_step, view, tick>>
    /\ pc' = "render"
    /\ UNCHANGED <<twin, paused, running, use_gui, file, screen, hist>>

\* if ((!paused) || single_step) { life_state_step(life); single_step = false; }
\* an overflowing addition of the step wraps
StepPhase ==
    /\ pc = "step"
    /\ IF ~paused \/ single_step
       THEN /\ life' = life_state_step(life).state
            /\ single_step' = FALSE
            /\ tick' = [tick EXCEPT !.steps = @ + 1]
       ELSE UNCHANGED <<life, single_step, tick>>
    /\ pc' = "render"
    /\ UNCHANGED <<twin, view, paused, running, use_gui, file, screen, hist>>

\* the step phase with an addition of the counting loop that overflows: the trap
StepPhaseTrap ==
    /\ pc = "step"
    /\ ~paused \/ single_step
    /\ CountNeighbours(life.live).overflow
    /\ tick' = [tick EXCEPT !.steps = @ + 1]
    /\ pc' = "trapped"
    /\ UNCHANGED <<life, twin, view, paused, single_step, running, use_gui, file, screen,
                   hist>>

\* the render pass left out once running is false
Render_skips_after_quit ==
    /\ pc = "render"
    /\ screen' = IF running THEN Rendered ELSE screen
    /\ pc' = IF running THEN "input" ELSE "exit"
    /\ tick' = IF running
               THEN [n |-> tick.n + 1, keys |-> tick.keys, requests |-> 0, steps |-> 0,
                     gen0 |-> life.generation, error |-> FALSE]
               ELSE tick
    /\ UNCHANGED <<life, twin, view, paused, single_step, running, use_gui, file, hist>>

\* render_state_terminal or render_state_sdl, and the test of while (running)
Render ==
    /\ pc = "render"
    /\ screen' = Rendered
    /\ pc' = IF running THEN "input" ELSE "exit"
    /\ tick' = IF running
               THEN [n |-> tick.n + 1, keys |-> tick.keys, requests |-> 0, steps |-> 0,
                     gen0 |-> life.generation, error |-> FALSE]
               ELSE tick
    /\ UNCHANGED <<life, twin, view, paused, single_step, running, use_gui, file, hist>>

\* main: life_state_destroy and return
Finish ==
    /\ pc = "exit"
    /\ life' = life_state_destroy(life)
    /\ pc' = "done"
    /\ UNCHANGED <<twin, view, paused, single_step, running, use_gui, file, tick, screen,
                   hist>>

Next ==
    \/ Load
    \/ StartTerminal
    \/ StartGui
    \/ GuiInitFails
    \/ \E ch \in Events : Key(ch)
    \/ EndInput
    \/ ReadError
    \/ StepPhase
    \/ StepPhaseTrap
    \/ Render
    \/ Finish

Spec == Init /\ [][Next]_vars

\* the Life rule applied n times to the live set L of the plane
RECURSIVE LifeIter(_, _)
LifeIter(L, n) == IF n = 0 THEN L ELSE LifeIter(LifeRule(L), n - 1)

\* C8: at every render pass the live set the renderer reads is the Life rule applied
\* exactly `generation` times to the loaded pattern
C8_RenderedIsGeneration ==
    screen.drawn =>
        PlaneCells(screen.live) = LifeIter(PlaneCells(hist.loaded), screen.generation)

\* a tick is over: its step phase is behind, or the loop has been left in it
TickOver == tick.n >= 1 /\ pc \in {"render", "exit", "trapped"}

\* at most one step in a tick, none before the input collection is over, none in
\* a tick that is paused without a request, and the generation follows the steps
TickSteps ==
    /\ pc = "input" => tick.steps = 0
    /\ tick.steps <= 1
    /\ (TickOver /\ paused /\ tick.requests = 0) => tick.steps = 0
    /\ (pc = "input" /\ tick.requests = 0) => ~single_step
    /\ tick.n <= 1 => tick.gen0 = 0
    /\ life.generation \in {tick.gen0, tick.gen0 + 1}
    /\ pc # "trapped" => life.generation = tick.gen0 + tick.steps

\* C9: in each tick life_state_step is called at most once, after the input collection
\* and before the render: exactly once if the simulation is not paused or an 'n' was
\* read in the tick, not at all if it is paused and no 'n' was read; several 'n' in a
\* tick give one step, the request does not carry over to the next tick, and the
\* generation starts at 0 and rises by 0 or 1 per tick
C9_OneStepPerTick ==
    /\ TickSteps
    /\ (TickOver /\ (~paused \/ tick.requests > 0)) => tick.steps = 1

\* C9, amended: as C9, but a tick of the terminal loop whose read fails with an errno
\* other than EAGAIN and EWOULDBLOCK leaves the loop with no step and no render
C9_OneStepPerTickUnlessReadError ==
    /\ TickSteps
    /\ (TickOver /\ ~tick.error /\ (~paused \/ tick.requests > 0)) => tick.steps = 1
    /\ (TickOver /\ tick.error) => (tick.steps = 0 /\ pc = "exit" /\ ~use_gui)

\* a paused tick in which 'n' was read twice and one step was made
C9_Witness ==
    /\ pc = "render"
    /\ paused
    /\ tick.requests = 2
    /\ tick.steps = 1
    /\ life.generation = tick.gen0 + 1

\* the quit command has been read in the loop: running is false, and not by a read error
QuitRead ==
    /\ pc \in {"input", "step", "render", "exit"}
    /\ ~running
    /\ ~tick.error

\* C22: once the driver loop has read the quit command it makes no further
\* life_state_step call and no further render pass before the loop exits (so the
\* generation and the live set at the exit are the ones rendered before the quit)
C22_QuitStopsStepAndRender ==
    [][ (QuitRead /\ pc # "exit") =>
            /\ tick'.steps = tick.steps
            /\ life' = life
            /\ ~(pc = "render" /\ pc' # "render")
      ]_vars

\* C22, amended: once the driver loop has read the quit command it finishes the
\* iteration in which it read it and begins no other: the terminal loop reads no
\* further character, the SDL loop polls the events that are left; then comes the step
\* phase, with one life_state_step call unless the simulation is paused with no step
\* requested, then one render pass, and then the loop exits.  The generation, the live
\* set and the viewport at the exit are the ones of that last render pass.
C22_QuitFinishesTick ==
    /\ [](QuitRead =>
            /\ pc = "input" => (use_gui /\ tick.steps = 0)
            /\ pc = "render" =>
                  tick.steps = (IF ~paused \/ tick.requests > 0 THEN 1 ELSE 0)
            /\ pc = "exit" =>
                  /\ tick.steps = (IF ~paused \/ tick.requests > 0 THEN 1 ELSE 0)
                  /\ life.generation = tick.gen0 + tick.steps
                  /\ screen.drawn
                  /\ screen.generation = life.generation
                  /\ screen.live = Cells(life.live)
                  /\ screen.view = view)
    /\ [][ (QuitRead /\ pc # "exit") =>
              /\ tick'.n = tick.n
              /\ pc = "input" => pc' \in {"input", "step"}
              /\ pc = "step" => pc' \in {"render", "trapped"}
              /\ pc = "render" => (pc' = "exit" /\ screen' = Rendered /\ life' = life)
         ]_vars

\* the loop has exited after a quit read in its second iteration, which stepped the
\* glider to generation 2 and rendered it
C22_Witness ==
    /\ pc = "exit"
    /\ file = "glider.txt"
    /\ QuitRead
    /\ tick.n = 2
    /\ tick.steps = 1
    /\ life.generation = 2
    /\ screen.generation = 2
    /\ Cardinality(screen.live) = 5

-----------------------------------------------------------------------------
(* SpecSet: the cell set under every sequence of inserts and clears *)

\* cells of the row the larger initial set holds: two more distinct cells make
\* (size + 1) * 2 exceed the initial capacity
RowCells == 1023

\* the set after cell_set_insert of (0, 0), (1, 0), ..., (n - 1, 0) into a new set
RowSet(n) ==
    ForRange(LAMBDA set, i : cell_set_insert(set, i, 0), 0, n - 1,
             cell_set_init(INITIAL_HASH_CAPACITY))

\* the coordinates the inserts draw from: one of the row, two that share a bucket at
\* capacities 2048 and 4096, a negative one and the two ends of int
SetCoords ==
    { <<0, 0>>, <<1, -2>>, <<4, -1>>, <<-1, -1>>, <<INT_MAX, INT_MIN>> }

\* the number of nodes in the chains
NodeCount(set) ==
    ForBuckets(LAMBDA n, i : n + Len(set.buckets[i]), set.buckets, set.capacity, 0)

\* what the ghost keeps of a set
Snapshot(set) ==
    [count |-> cell_set_count(set), capacity |-> set.capacity, cells |-> Cells(set)]

InitSet ==
    /\ \E n \in {0, RowCells} :
          /\ life = [live |-> RowSet(n), generation |-> 0]
          /\ hist = [op |-> "none", x |-> 0, y |-> 0, present |-> FALSE,
                     before |-> Snapshot(life.live),
                     inserted |-> { <<i, 0>> : i \in 0..(n - 1) }]
    /\ twin = life_state_init
    /\ view = view_init
    /\ paused = FALSE
    /\ single_step = FALSE
    /\ running = TRUE
    /\ use_gui = FALSE
    /\ file = "none"
    /\ pc = "set"
    /\ tick = NoTick
    /\ screen = NoScreen

\* cell_set_insert(&life.live, x, y).  hist: the call, whether (x, y) was in the set,
\* the set before, and the distinct coordinates inserted since the last clear
Insert(x, y) ==
    /\ pc = "set"
    /\ life' = [life EXCEPT !.live = cell_set_insert(@, x, y)]
    /\ hist' = [op |-> "insert", x |-> x, y |-> y,
                present |-> cell_set_contains(life.live, x, y),
                before |-> Snapshot(life.live),
                inserted |-> hist.inserted \cup {<<x, y>>}]
    /\ UNCHANGED <<twin, view, paused, single_step, running, use_gui, file, pc, tick, screen>>

\* cell_set_clear(&life.live)
Clear ==
    /\ pc = "set"
    /\ life' = [life EXCEPT !.live = cell_set_clear(@)]
    /\ hist' = [op |-> "clear", x |-> 0, y |-> 0, present |-> FALSE,
                before |-> Snapshot(life.live), inserted |-> {}]
    /\ UNCHANGED <<twin, view, paused, single_step, running, use_gui, file, pc, tick, screen>>

NextSet ==
    \/ \E c \in SetCoords : Insert(c[1], c[2])
    \/ Clear

SpecSet == InitSet /\ [][NextSet]_vars

\* C2: after cell_set_insert(x, y), cell_set_contains(x, y) is true, and an insert of
\* a coordinate that is already in the set leaves count(), the capacity and the set
\* of live coordinates as they were
C2_InsertContainsIdempotent ==
    hist.op = "insert" =>
        /\ cell_set_contains(life.live, hist.x, hist.y)
        /\ hist.present => Snapshot(life.live) = hist.before

\* a second insert of a coordinate, into a set that has grown
C2_Witness ==
    /\ hist.op = "insert"
    /\ hist.present
    /\ <<hist.x, hist.y>> \in SetCoords \ {<<0, 0>>}
    /\ life.live.capacity > INITIAL_HASH_CAPACITY

\* C3: after any sequence of inserts since the last clear, with any number of
\* growths, count() is the number of distinct coordinates inserted, and no
\* coordinate is stored twice in the chains
C3_CountIsDistinctInserted ==
    /\ cell_set_count(life.live) = Cardinality(hist.inserted)
    /\ NodeCount(life.live) = Cardinality(Cells(life.live))

\* a growth has happened, a coordinate has been inserted twice, and two inserted
\* coordinates share a chain
C3_Witness ==
    /\ hist.op = "insert"
    /\ hist.present
    /\ life.live.capacity > INITIAL_HASH_CAPACITY
    /\ \E i \in DOMAIN life.live.buckets : Len(life.live.buckets[i]) > 1
    /\ {<<1, -2>>, <<4, -1>>} \subseteq hist.inserted

-----------------------------------------------------------------------------
(* SpecStep: life_state_step on a state and on its twin, a state with the same  *)
(* cells in another bucket layout                                               *)

\* steps in one run
MaxSteps == 4

\* the coordinates in the order the iterator yields them
IterOrder(set) ==
    While(LAMBDA s : s.r.ok,
          LAMBDA s : [r |-> cell_iter_next(set, s.r.it), out |-> Append(s.out, <<s.r.x, s.r.y>>)],
          [r |-> cell_iter_next(set, cell_set_iter(set)), out |-> <<>>]).out

\* a state of generation 0 with the cells inserted in the order given
Built(cells, capacity) ==
    [live |-> ForRange(LAMBDA set, k : cell_set_insert(set, cells[k][1], cells[k][2]),
                       1, Len(cells), cell_set_init(capacity)),
     generation |-> 0]

\* the cells of state, inserted in the reverse of its iteration order into a set
\* of twice the initial capacity
TwinOf(state) ==
    With(IterOrder(state.live), LAMBDA order :
        [Built([k \in 1..Len(order) |-> order[Len(order) + 1 - k]],
               2 * INITIAL_HASH_CAPACITY)
         EXCEPT !.generation = state.generation])

Shapes ==
    { << <<0, 0>> >>,
      << <<0, 0>>, <<1, 0>> >>,
      << <<0, 0>>, <<0, 1>>, <<0, 2>> >>,
      << <<0, 0>>, <<1, 0>>, <<0, 1>> >>,
      << <<0, 0>>, <<1, 0>>, <<0, 1>>, <<1, 1>> >>,
      << <<1, 0>>, <<0, 1>>, <<1, 1>>, <<2, 1>>, <<1, 2>> >> }

\* the x of the rightmost cell of a shape
Right(shape) ==
    CHOOSE w \in { shape[k][1] : k \in 1..Len(shape) } :
        \A k \in 1..Len(shape) : shape[k][1] <= w

\* where a shape is put: at the origin, at negative coordinates, and against the
\* right and the top end of int
Offsets(shape) ==
    { <<0, 0>>, <<-3, -2>>, <<INT_MAX - Right(shape), INT_MIN>> }

Placed(shape, o) == [k \in 1..Len(shape) |-> <<shape[k][1] + o[1], shape[k][2] + o[2]>>]

\* a row of three beside a cell that shares the bucket of the row's middle cell, and
\* a cell at the right end of int beside three at the left end
OtherInputs ==
    { << <<0, -2>>, <<1, -2>>, <<2, -2>>, <<4, -1>> >>,
      << <<INT_MAX, 0>>, <<INT_MIN, -1>>, <<INT_MIN, 0>>, <<INT_MIN, 1>> >> }

StepInputs ==
    UNION { { Placed(shape, o) : o \in Offsets(shape) } : shape \in Shapes } \cup OtherInputs

StepFiles == {"glider.txt", "edge.txt"}

\* the entries of a counter, bucket by bucket and chain by chain
CountEntries(map) ==
    ForBuckets(LAMBDA acc, i : acc \o map.buckets[i], map.buckets, map.capacity, <<>>)

\* what the ghost of a step keeps: the call, the steps so far, the cells and the
\* iteration orders of the two states before it, whether an addition overflowed, and
\* the entries of the counter at the end of the counting loop
StepHist(op, n, r, t) ==
    [op |-> op, n |-> n,
     before |-> Cells(life.live), order |-> IterOrder(life.live),
     twin_order |-> IterOrder(twin.live),
     overflow |-> r.overflow, twin_overflow |-> t.overflow,
     counts |-> CountEntries(r.counts)]

InitStep ==
    /\ \/ /\ file = "none"
          /\ \E cells \in StepInputs : life = Built(cells, INITIAL_HASH_CAPACITY)
       \/ /\ file \in StepFiles
          /\ life = life_state_import_file(life_state_init, FileNamed(file)).state
    /\ twin = TwinOf(life)
    /\ view = view_init
    /\ paused = FALSE
    /\ single_step = FALSE
    /\ running = TRUE
    /\ use_gui = FALSE
    /\ pc = "step"
    /\ tick = NoTick
    /\ screen = NoScreen
    /\ hist = StepHist("none", 0,
                        [overflow |-> FALSE, counts |-> count_map_init(COUNT_HASH_CAPACITY)],
                        [overflow |-> FALSE])

\* life_state_step(&life) and life_state_step(&twin); an overflowing addition wraps
Step ==
    /\ pc = "step"
    /\ hist.n < MaxSteps
    /\ \E r \in {life_state_step(life)}, t \in {life_state_step(twin)} :
          /\ life' = r.state
          /\ twin' = t.state
          /\ hist' = StepHist("step", hist.n + 1, r, t)
    /\ UNCHANGED <<view, paused, single_step, running, use_gui, file, pc, tick, screen>>

\* life_state_step(&life) with an addition of the counting loop that overflows: the trap
StepTrap ==
    /\ pc = "step"
    /\ hist.n < MaxSteps
    /\ \E r \in {CountNeighbours(life.live)} :
          /\ r.overflow
          /\ hist' = StepHist("trap", hist.n + 1,
                               [overflow |-> TRUE, counts |-> r.map], [overflow |-> TRUE])
    /\ pc' = "trapped"
    /\ UNCHANGED <<life, twin, view, paused, single_step, running, use_gui, file, tick, screen>>

NextStep == Step \/ StepTrap

SpecStep == InitStep /\ [][NextStep]_vars

\* C1: a coordinate of the plane is live after life_state_step iff it had exactly 3
\* live Moore neighbours before, or exactly 2 and was live itself
C1_StepIsLifeRule ==
    hist.op = "step" => PlaneCells(Cells(life.live)) = LifeRule(PlaneCells(hist.before))

\* C4: two states with the same live coordinates in different bucket layouts
\* (insertion order, capacity) have the same live coordinates after life_state_step
C4_StepLayoutIndependent ==
    hist.op = "step" =>
        /\ Cells(life.live) = Cells(twin.live)
        /\ hist.overflow = hist.twin_overflow

\* a step of two states whose iterators yielded the cells in different orders, at
\* different capacities, with live cells after it
C4_Witness ==
    /\ hist.op = "step"
    /\ hist.order # hist.twin_order
    /\ { hist.order[k] : k \in 1..Len(hist.order) }
         = { hist.twin_order[k] : k \in 1..Len(hist.twin_order) }
    /\ life.live.capacity # twin.live.capacity
    /\ Cells(life.live) # {}

\* C5: the set loaded from the rows .O. / ..O / OOO is {(1,0),(2,1),(0,2),(1,2),(2,2)}
\* and four steps make it {(2,1),(3,2),(1,3),(2,3),(3,3)}
C5_Glider ==
    file = "glider.txt" =>
        /\ hist.n = 0 =>
             Cells(life.live) = { <<1, 0>>, <<2, 1>>, <<0, 2>>, <<1, 2>>, <<2, 2>> }
        /\ hist.n = 4 =>
             Cells(life.live) = { <<2, 1>>, <<3, 2>>, <<1, 3>>, <<2, 3>>, <<3, 3>> }

\* the fourth step of the loaded glider
C5_Witness ==
    /\ file = "glider.txt"
    /\ hist.op = "step"
    /\ hist.n = 4
    /\ life.generation = 4

\* S is a 2x2 block
IsBlock(S) ==
    \E c \in S :
        /\ c[1] < INT_MAX
        /\ c[2] < INT_MAX
        /\ S = { c, <<c[1] + 1, c[2]>>, <<c[1], c[2] + 1>>, <<c[1] + 1, c[2] + 1>> }

\* C6: when the live set is exactly a 2x2 block, after one step it is exactly the same
\* four cells
C6_BlockStable ==
    (hist.op = "step" /\ IsBlock(hist.before)) => Cells(life.live) = hist.before

\* a step of a block that lies against the ends of int
C6_Witness ==
    /\ hist.op = "step"
    /\ hist.n = 1
    /\ IsBlock(hist.before)
    /\ <<INT_MAX, INT_MIN>> \in hist.before

\* C7: a live cell with no live Moore neighbour is not live after one step, and a
\* live set of one cell becomes empty
C7_Underpopulation ==
    hist.op = "step" =>
        /\ \A c \in hist.before :
             LiveNeighbours(PlaneCells(hist.before), <<PlaneOf(c[1]), PlaneOf(c[2])>>) = 0
                 => c \notin Cells(life.live)
        /\ Cardinality(hist.before) = 1 => Cells(life.live) = {}

\* C17: when the counting loop of life_state_step is over, the counter holds exactly
\* one entry for a coordinate iff the coordinate has at least one live Moore neighbour
\* in the live set L the step began with, the count of the entry is the number of live
\* Moore neighbours of the coordinate in L, between 1 and 8, and a coordinate without
\* a live neighbour has no entry
C17_CounterIsNeighbourCount ==
    hist.op = "step" =>
        LET L == PlaneCells(hist.before)
            At2(k) == <<PlaneOf(hist.counts[k].x), PlaneOf(hist.counts[k].y)>>
            entries == 1..Len(hist.counts)
        IN /\ \A j, k \in entries : At2(j) = At2(k) => j = k
           /\ { At2(k) : k \in entries } = UNION { Moore(d) : d \in L }
           /\ \A k \in entries :
                 /\ hist.counts[k].count = LiveNeighbours(L, At2(k))
                 /\ hist.counts[k].count >= 1
                 /\ hist.counts[k].count <= 8

-----------------------------------------------------------------------------
(* SpecView: the viewport under every sequence of viewport keys *)

\* pans in one run of the viewport keys (the zooms and resets are not limited)
MaxPans == 1

\* zooms of one direction in a row that are counted from the scale they began at
MaxZooms == 12

\* viewports the keys reach: the initial one, and scale 1 at the ends of int
\* (scale 1 pans reach every center)
EdgeViews ==
    { [center_x |-> cx, center_y |-> 0, scale |-> 1] : cx \in {INT_MAX, INT_MIN} }

InitView ==
    /\ life = life_state_init
    /\ twin = life_state_init
    /\ view \in {view_init} \cup EdgeViews
    /\ paused = FALSE
    /\ single_step = FALSE
    /\ running = TRUE
    /\ use_gui \in BOOLEAN
    /\ file = "none"
    /\ pc = "view"
    /\ tick = NoTick
    /\ screen = NoScreen
    /\ hist = [op |-> "none", n |-> 0, before |-> view.scale, view0 |-> view,
               outs |-> 0, ins |-> -1]

Pans(ch) == IF ch \in {"w", "s", "a", "d"} THEN 1 ELSE 0

\* the streak of a zoom key after the key ch, which made the viewport v: streak counts
\* the keys `zoom` pressed in a row since the scale was `from` (-1: the keys before
\* the streak did not leave the scale at `from`)
Streak(streak, zoom, from, ch, v) ==
    IF ch \in zoom THEN (IF streak >= 0 THEN streak + 1 ELSE -1)
    ELSE IF v.scale = from THEN 0 ELSE -1

\* what the ghost of a key keeps: the key, the pans so far, the scale and the viewport
\* before the key, and the streaks of zoom outs from scale 1 and of zoom ins from 1024
ViewHist(ch, v) ==
    [op |-> ch, n |-> hist.n + Pans(ch), before |-> view.scale, view0 |-> view,
     outs |-> Streak(hist.outs, {"-"}, 1, ch, v),
     ins |-> Streak(hist.ins, {"+", "="}, 1024, ch, v)]

\* one key of the dispatch, on the viewport; an overflowing pan wraps
ViewKey(ch) ==
    /\ pc = "view"
    /\ hist.n + Pans(ch) <= MaxPans
    /\ ch = "-" => hist.outs < MaxZooms
    /\ ch \in {"+", "="} => hist.ins < MaxZooms
    /\ view' = ViewAfterKey(view, ch)
    /\ hist' = ViewHist(ch, ViewAfterKey(view, ch))
    /\ UNCHANGED <<life, twin, paused, single_step, running, use_gui, file, pc, tick, screen>>

\* one panning key whose addition overflows: the trap
ViewKeyTrap(ch) ==
    /\ pc = "view"
    /\ hist.n + Pans(ch) <= MaxPans
    /\ KeyOverflows(view, ch)
    /\ pc' = "trapped"
    /\ hist' = ViewHist(ch, view)
    /\ UNCHANGED <<life, twin, view, paused, single_step, running, use_gui, file, tick, screen>>

NextView ==
    \/ \E ch \in ViewKeys : ViewKey(ch)
    \/ \E ch \in ViewKeys : ViewKeyTrap(ch)

SpecView == InitView /\ [][NextView]_vars

\* C10: after any sequence of pan, zoom in, zoom out and reset keys from the initial
\* viewport, the scale is at least 1 and at most 1024
C10_ScaleClamped == view.scale >= 1 /\ view.scale <= 1024

\* a zoom out pressed at scale 1024
C10_Witness ==
    /\ pc = "view"
    /\ hist.op = "-"
    /\ hist.before = 1024
    /\ view.scale = 1024

RECURSIVE Pow2(_)
Pow2(k) == IF k = 0 THEN 1 ELSE 2 * Pow2(k - 1)

\* C11: view_zoom_in halves the scale with a floor of 1 and view_zoom_out doubles it
\* with a cap of 1024, neither touching the center; k zoom outs in a row from scale 1
\* give min(2^k, 1024), so ten reach 1024 and every later one leaves 1024, and k zoom
\* ins in a row from scale 1024 give max(1024 / 2^k, 1)
C11_ZoomHalvesDoubles ==
    /\ hist.op \in {"+", "="} =>
          /\ view.center_x = hist.view0.center_x
          /\ view.center_y = hist.view0.center_y
          /\ hist.view0.scale = 1 => view.scale = 1
          /\ hist.view0.scale > 1 => 2 * view.scale = hist.view0.scale
    /\ hist.op = "-" =>
          /\ view.center_x = hist.view0.center_x
          /\ view.center_y = hist.view0.center_y
          /\ hist.view0.scale >= 1024 => view.scale = 1024
          /\ hist.view0.scale < 1024 => view.scale = 2 * hist.view0.scale
    /\ hist.outs >= 0 =>
          view.scale = IF hist.outs >= 10 THEN 1024 ELSE Pow2(hist.outs)
    /\ hist.ins >= 0 =>
          view.scale = IF hist.ins >= 10 THEN 1 ELSE 1024 \div Pow2(hist.ins)

\* eleven zoom ins in a row from scale 1024, away from the origin
C11_Witness ==
    /\ pc = "view"
    /\ hist.ins = 11
    /\ view.scale = 1
    /\ view.center_x # 0

\* v + d on the plane, for an int v
PlaneAdd(v, d) == <<PlaneOf(v)[1], PlaneOf(v)[2] + d>>

\* C12: view_pan(dx, dy) adds dx * scale to center_x and dy * scale to center_y, with
\* the scale at the time of the call, and leaves the scale as it was.  (No center of
\* these runs is near the half of INT_MAX or INT_MIN, where PlaneOf changes its anchor.)
C12_PanAddsScaledDelta ==
    (pc = "view" /\ hist.op \in {"w", "s", "a", "d"}) =>
        /\ PlaneOf(view.center_x)
             = PlaneAdd(hist.view0.center_x, PanOf(hist.op)[1] * hist.view0.scale)
        /\ PlaneOf(view.center_y)
             = PlaneAdd(hist.view0.center_y, PanOf(hist.op)[2] * hist.view0.scale)
        /\ view.scale = hist.view0.scale

-----------------------------------------------------------------------------
(* SpecEngine: the engine under every sequence of insert, clear, pattern load   *)
(* and step.  (No coordinate of these runs is near an end of int: SpecStep has  *)
(* the overflow of the step.)                                                   *)

\* operations in one run
MaxEngineOps == 3

\* cells of the row the larger initial state holds: its next generation, three rows of
\* GrowRow - 2 cells, makes the next set of the step double twice
GrowRow == 685

\* the coordinates the inserts draw from: one of bucket 0 at capacity 2048, which it
\* shares with (0, 0), and one of the last bucket, 2047
EngineCoords == { <<21, -1>>, <<2, -13>> }

EngineFiles == {"glider.txt"}

\* cell_set_iter and cell_iter_next until it returns false: [r, out], r the last
\* result and out the coordinates yielded, in order
IterRun(set) ==
    While(LAMBDA s : s.r.ok,
          LAMBDA s : [r |-> cell_iter_next(set, s.r.it), out |-> Append(s.out, <<s.r.x, s.r.y>>)],
          [r |-> cell_iter_next(set, cell_set_iter(set)), out |-> <<>>])

\* what the ghost of an operation keeps: the call and its arguments, the operations so
\* far, whether (x, y) was in the set, the set and the generation before, and the
\* trace of the next set of a step
EngineHist(op, n, x, y, present, before, gen0, trace) ==
    [op |-> op, n |-> n, x |-> x, y |-> y, present |-> present,
     before |-> before, gen0 |-> gen0, trace |-> trace]

\* the engine as life_state_init leaves it, or as the load of a file with one line of
\* GrowRow live characters leaves it, which is the first operation of its run
InitEngine ==
    /\ \/ /\ life = life_state_init
          /\ hist = EngineHist("none", 0, 0, 0, FALSE, Snapshot(life.live), 0, <<>>)
       \/ /\ life = [live |-> RowSet(GrowRow), generation |-> 0]
          /\ hist = EngineHist("load", 1, 0, 0, FALSE,
                               Snapshot(cell_set_init(INITIAL_HASH_CAPACITY)), 0, <<>>)
    /\ twin = life_state_init
    /\ view = view_init
    /\ paused = FALSE
    /\ single_step = FALSE
    /\ running = TRUE
    /\ use_gui = FALSE
    /\ file = "none"
    /\ pc = "engine"
    /\ tick = NoTick
    /\ screen = NoScreen

\* cell_set_insert(&life.live, x, y)
EngineInsert(x, y) ==
    /\ pc = "engine"
    /\ hist.n < MaxEngineOps
    /\ life' = [life EXCEPT !.live = cell_set_insert(@, x, y)]
    /\ hist' = EngineHist("insert", hist.n + 1, x, y, cell_set_contains(life.live, x, y),
                          Snapshot(life.live), life.generation, <<>>)
    /\ UNCHANGED <<twin, view, paused, single_step, running, use_gui, file, pc, tick, screen>>

\* life_state_clear(&life)
EngineClear ==
    /\ pc = "engine"
    /\ hist.n < MaxEngineOps
    /\ life' = life_state_clear(life)
    /\ hist' = EngineHist("clear", hist.n + 1, 0, 0, FALSE,
                          Snapshot(life.live), life.generation, <<>>)
    /\ UNCHANGED <<twin, view, paused, single_step, running, use_gui, file, pc, tick, screen>>

\* life_state_import_file(&life, name)
EngineLoad(name) ==
    /\ pc = "engine"
    /\ hist.n < MaxEngineOps
    /\ life' = life_state_import_file(life, FileNamed(name)).state
    /\ hist' = EngineHist("load", hist.n + 1, 0, 0, FALSE,
                          Snapshot(life.live), life.generation, <<>>)
    /\ UNCHANGED <<twin, view, paused, single_step, running, use_gui, file, pc, tick, screen>>

\* life_state_step(&life)
EngineStep ==
    /\ pc = "engine"
    /\ hist.n < MaxEngineOps
    /\ \E r \in { life_state_step(life) } :
          /\ life' = r.state
          /\ hist' = EngineHist("step", hist.n + 1, 0, 0, FALSE,
                                Snapshot(life.live), life.generation, r.trace)
    /\ UNCHANGED <<twin, view, paused, single_step, running, use_gui, file, pc, tick, screen>>

NextEngine ==
    \/ \E c \in EngineCoords : EngineInsert(c[1], c[2])
    \/ EngineClear
    \/ \E name \in EngineFiles : EngineLoad(name)
    \/ EngineStep

SpecEngine == InitEngine /\ [][NextEngine]_vars

\* a capacity and a size that go together: the capacity is the initial capacity times
\* a power of two, and at least twice the size
CapacityOk(sized) ==
    /\ \E k \in 0..19 : sized.capacity = INITIAL_HASH_CAPACITY * Pow2(k)
    /\ sized.capacity >= 2 * sized.size

\* b is a after the insert of a new coordinate: one more cell, and the capacity
\* doubled once exactly when (size + 1) * 2 exceeded it
InsertedNew(a, b) ==
    /\ b.size = a.size + 1
    /\ b.capacity = IF (a.size + 1) * 2 > a.capacity THEN 2 * a.capacity ELSE a.capacity

\* C13: in every state of the live set, and of the next set a step builds, the
\* capacity is 2048 times a power of two and at least twice the size; an insert of a
\* new coordinate doubles the capacity exactly when (size + 1) * 2 exceeds the
\* capacity before it, once, and an insert of a present coordinate leaves it
C13_CapacityInvariant ==
    /\ CapacityOk(life.live)
    /\ \A k \in 1..Len(hist.trace) : CapacityOk(hist.trace[k])
    /\ \A k \in 1..(Len(hist.trace) - 1) : InsertedNew(hist.trace[k], hist.trace[k + 1])
    /\ hist.op = "step" =>
          /\ hist.trace[1] = [capacity |-> hist.before.capacity, size |-> 0]
          /\ hist.trace[Len(hist.trace)]
               = [capacity |-> life.live.capacity, size |-> life.live.size]
    /\ (hist.op = "insert" /\ ~hist.present) =>
          InsertedNew([capacity |-> hist.before.capacity, size |-> hist.before.count],
                      life.live)
    /\ (hist.op = "insert" /\ hist.present) =>
          /\ life.live.capacity = hist.before.capacity
          /\ life.live.size = hist.before.count

\* a step whose next set doubled twice
C13_Witness ==
    /\ hist.op = "step"
    /\ hist.before.capacity = INITIAL_HASH_CAPACITY
    /\ life.live.capacity = 4 * INITIAL_HASH_CAPACITY
    /\ life.live.size > INITIAL_HASH_CAPACITY

\* C14: the capacity of the live set never falls over insert, clear, load and step;
\* a clear leaves an empty set (count 0, contains false for every coordinate that was
\* in it) of the same capacity, and a step leaves a capacity that is at least the
\* one before it, also when the population falls
C14_CapacityNeverShrinks ==
    /\ life.live.capacity >= hist.before.capacity
    /\ hist.op = "clear" =>
          /\ cell_set_count(life.live) = 0
          /\ Cells(life.live) = {}
          /\ \A c \in hist.before.cells \cup EngineCoords :
                ~cell_set_contains(life.live, c[1], c[2])
          /\ life.live.capacity = hist.before.capacity

\* a step of a set that has grown, after which fewer cells are live
C14_Witness ==
    /\ hist.op = "step"
    /\ hist.before.capacity > INITIAL_HASH_CAPACITY
    /\ life.live.capacity = hist.before.capacity
    /\ cell_set_count(life.live) < hist.before.count

\* C18: cell_set_iter followed by cell_iter_next until it returns false yields every
\* live coordinate once and nothing else, in finitely many calls, and further calls
\* return false
C18_IterationYieldsEachOnce ==
    With(IterRun(life.live), LAMBDA run :
        /\ { run.out[k] : k \in 1..Len(run.out) } = Cells(life.live)
        /\ Len(run.out) = Cardinality(Cells(life.live))
        /\ ~run.r.ok
        /\ ~cell_iter_next(life.live, run.r.it).ok
        /\ cell_iter_next(life.live, run.r.it).it = run.r.it)

\* a set whose only occupied bucket is the last one
C18_Witness ==
    /\ DOMAIN life.live.buckets = {life.live.capacity - 1}
    /\ Cells(life.live) = {<<2, -13>>}

\* every node is in the bucket its hash selects at the capacity of the set
PlacementOk(set) ==
    \A i \in DOMAIN set.buckets : \A k \in 1..Len(set.buckets[i]) :
        cell_hash(set, set.buckets[i][k].x, set.buckets[i][k].y) = i

\* C19: every stored coordinate is in the bucket its hash selects at the current
\* capacity and is found by cell_set_contains; cell_set_expand leaves the coordinates
\* and the size as they are, with every node in its bucket of the doubled capacity;
\* an insert loses no coordinate, whether it grows the set or not
C19_GrowthPreservesPlacement ==
    /\ PlacementOk(life.live)
    /\ \A c \in Cells(life.live) : cell_set_contains(life.live, c[1], c[2])
    /\ With(cell_set_expand(life.live), LAMBDA grown :
          /\ grown.capacity = 2 * life.live.capacity
          /\ grown.size = life.live.size
          /\ Cells(grown) = Cells(life.live)
          /\ PlacementOk(grown))
    /\ hist.op = "insert" => Cells(life.live) = hist.before.cells \cup {<<hist.x, hist.y>>}

\* an insert into a set that has doubled twice
C19_Witness ==
    /\ hist.op = "insert"
    /\ ~hist.present
    /\ life.live.capacity = 4 * INITIAL_HASH_CAPACITY
    /\ life.live.size > INITIAL_HASH_CAPACITY

-----------------------------------------------------------------------------
(* SpecLoad: life_state_import_file on every pattern file of a few lines, into  *)
(* an engine that is clear or not, and a step after it                          *)
(*   pc  "load" before the call, "loaded" after it, "stepped" after the step,   *)
(*       "trapped" after an overflow that trapped                               *)

\* lines of one pattern file
MaxLines == 2

\* the lines the files are made of: an empty line, dead and live characters, the two
\* kinds of comment, a carriage return before a live character, a '#' that does not
\* begin its line, and a line longer than INT_MAX
PatternLines ==
    { <<>>,
      Text(<<".", "O">>),
      Text(<<"#", "O">>),
      Text(<<"!">>),
      Text(<<"o", "1", "\r", "X">>),
      Text(<<" ", "#", "X">>),
      LongLine }

RECURSIVE FilesOf(_)
FilesOf(n) ==
    IF n = 0 THEN { <<>> }
    ELSE FilesOf(n - 1)
         \cup { Append(lines, line) : lines \in FilesOf(n - 1), line \in PatternLines }

PatternFiles ==
    { [exists |-> TRUE, lines |-> lines] : lines \in FilesOf(MaxLines) } \cup {MissingFile}

\* the engine before the load: clear, or the glider of the README after one step
LoadPriors ==
    { life_state_init,
      life_state_step(life_state_import_file(life_state_init, GliderFile).state).state }

\* what the ghost of the load keeps: the call, the file, the return value, and the set
\* and the generation before the call
LoadHist(op, f, ok) ==
    [op |-> op, f |-> f, ok |-> ok, before |-> Snapshot(life.live), gen0 |-> life.generation]

InitLoad ==
    /\ life \in LoadPriors
    /\ twin = life_state_init
    /\ view = view_init
    /\ paused = FALSE
    /\ single_step = FALSE
    /\ running = TRUE
    /\ use_gui = FALSE
    /\ file = "pattern.txt"
    /\ pc = "load"
    /\ tick = NoTick
    /\ screen = NoScreen
    /\ \E f \in PatternFiles : hist = LoadHist("none", f, TRUE)

\* life_state_import_file(&life, "pattern.txt"); an overflowing ++x wraps
LoadPattern ==
    /\ pc = "load"
    /\ \E got \in { life_state_import_file(life, hist.f) } :
          /\ life' = got.state
          /\ hist' = LoadHist("load", hist.f, got.ok)
    /\ pc' = "loaded"
    /\ UNCHANGED <<twin, view, paused, single_step, running, use_gui, file, tick, screen>>

\* life_state_import_file with a ++x that overflows: the trap
LoadPatternTrap ==
    /\ pc = "load"
    /\ life_state_import_file(life, hist.f).overflow
    /\ hist' = LoadHist("trap", hist.f, FALSE)
    /\ pc' = "trapped"
    /\ UNCHANGED <<life, twin, view, paused, single_step, running, use_gui, file, tick,
                   screen>>

\* life_state_step(&life) after the load has returned; an overflowing addition wraps
StepLoaded ==
    /\ pc = "loaded"
    /\ life' = life_state_step(life).state
    /\ hist' = LoadHist("step", hist.f, hist.ok)
    /\ pc' = "stepped"
    /\ UNCHANGED <<twin, view, paused, single_step, running, use_gui, file, tick, screen>>

\* life_state_step(&life) with an addition of the counting loop that overflows: the trap
StepLoadedTrap ==
    /\ pc = "loaded"
    /\ CountNeighbours(life.live).overflow
    /\ hist' = LoadHist("trap", hist.f, hist.ok)
    /\ pc' = "trapped"
    /\ UNCHANGED <<life, twin, view, paused, single_step, running, use_gui, file, tick,
                   screen>>

NextLoad ==
    \/ LoadPattern
    \/ LoadPatternTrap
    \/ StepLoaded
    \/ StepLoadedTrap

SpecLoad == InitLoad /\ [][NextLoad]_vars

\* column c + n on the plane, for a column c of the plane and 0 <= n <= INT_MAX
ColumnAdd(c, n) ==
    IF c[1] = 0 /\ c[2] > (INT_MAX \div 2) - n THEN <<1, (c[2] - INT_MAX) + n>>
    ELSE <<c[1], c[2] + n>>

\* the live characters of one line, at row y: every character of LiveChars before the
\* first line terminator, at its column
RECURSIVE LineCells(_, _, _)
LineCells(line, col, y) ==
    IF line = <<>> \/ line[1].ch \in {"\n", "\r"} THEN {}
    ELSE LineCells(Tail(line), ColumnAdd(col, line[1].n), y)
         \cup (IF line[1].ch \in LiveChars
               THEN { <<ColumnAdd(col, i), PlaneOf(y)>> : i \in 0..(line[1].n - 1) }
               ELSE {})

\* the cells of a pattern file: the lines that do not begin with '!' or '#' are the
\* rows 0, 1, ...
PatternCells(f) ==
    LET rows == SelectSeq(f.lines, LAMBDA line : line = <<>> \/ line[1].ch \notin {"!", "#"})
    IN UNION { LineCells(rows[k], <<0, 0>>, k - 1) : k \in 1..Len(rows) }

\* C15: after a life_state_import_file that returned 0, the live set is the set of
\* the (x, y) such that the character at column x, before any line terminator, of the
\* y-th line that does not begin with '!' or '#' is one of O, o, X, 1; what was in
\* the set before is gone and the generation is 0
C15_LoadIsPattern ==
    (hist.op = "load" /\ hist.ok) =>
        /\ PlaneCells(Cells(life.live)) = PatternCells(hist.f)
        /\ cell_set_count(life.live) = Cardinality(PatternCells(hist.f))
        /\ life.generation = 0

\* C16: life_state_import_file returns -1 exactly when the file cannot be opened, and
\* then the live set and the generation are as before the call, so that a clear
\* engine is still clear; a step after the failed load is the step of the Life rule
C16_LoadFailureLeavesEngine ==
    /\ hist.op = "load" => (hist.ok <=> hist.f.exists)
    /\ (hist.op = "load" /\ ~hist.ok) =>
          /\ Snapshot(life.live) = hist.before
          /\ life.generation = hist.gen0
    /\ (hist.op = "step" /\ ~hist.ok) =>
          /\ PlaneCells(Cells(life.live)) = LifeRule(PlaneCells(hist.before.cells))
          /\ life.generation = hist.gen0 + 1

\* a step of a clear engine after a load that failed
C16_Witness ==
    /\ pc = "stepped"
    /\ ~hist.ok
    /\ hist.before.cells = {}
    /\ hist.gen0 = 0
    /\ life.generation = 1
    /\ cell_set_count(life.live) = 0

-----------------------------------------------------------------------------
(* SpecKeys: main() on the glider of the README, with the viewport keys among   *)
(* the events.  (No step and no pan of these runs reaches an end of int.)       *)

KeysEvents == {"q", "p", "n", "d", "+", "-", "r"}

InitKeys == Init /\ file = "glider.txt"

NextKeys ==
    \/ Load
    \/ StartTerminal
    \/ StartGui
    \/ GuiInitFails
    \/ \E ch \in KeysEvents : Key(ch)
    \/ EndInput
    \/ ReadError
    \/ StepPhase
    \/ Render
    \/ Finish

SpecKeys == InitKeys /\ [][NextKeys]_vars

\* C20: in the driver loop the keys (pan, zoom in, zoom out, reset, pause, single
\* step, quit) and the render pass leave the live set and the generation as they
\* are, only the step phase changes them, and that only when the simulation is not
\* paused or a step is requested; the step phase leaves center_x, center_y and scale
\* as they are, only the keys of the input collection change them
C20_ViewEngineIndependent ==
    [][ /\ pc \in {"input", "render"} => life' = life
        /\ pc = "step" => view' = view
        /\ (pc \in {"input", "step", "render"} /\ life' # life) =>
              (pc = "step" /\ (~paused \/ single_step))
        /\ view' # view => pc = "input"
      ]_vars

\* a render pass after two steps, a zoom out, a pan at scale 2 and a pause
C20_Witness ==
    /\ pc = "render"
    /\ life.generation = 2
    /\ view = [center_x |-> 2, center_y |-> 0, scale |-> 2]
    /\ paused
    /\ screen.drawn
    /\ screen.view # view

-----------------------------------------------------------------------------
(* SpecRender: one render pass of either renderer, on a loaded pattern, after a *)
(* few viewport keys.  (No pan of these runs overflows: SpecView has that.)     *)
(*   pc  "view" before the pass, "drawn" after it, "trapped" after an overflow  *)
(*       that trapped                                                           *)
(*   screen  the grid the pass drew; hist  the keys so far and the window       *)

\* viewport keys before the render pass
MaxRenderKeys == 2

RenderKeys == {"a", "s", "-"}

RenderFiles == {"glider.txt", "edge.txt"}

\* viewports the keys reach: the initial one, and scale 1 at the left end of int
\* (2097152 pans to the left at scale 1024, and ten zoom ins)
RenderViews ==
    { view_init,
      [center_x |-> INT_MIN, center_y |-> 2, scale |-> 1],
      [center_x |-> INT_MAX - 1, center_y |-> 2, scale |-> 1] }

\* window sizes of the terminal: 7 x 4 and 4 x 5 characters, and no answer
WinSizes ==
    { [ok |-> TRUE, ws_row |-> 7, ws_col |-> 4],
      [ok |-> TRUE, ws_row |-> 4, ws_col |-> 5],
      [ok |-> FALSE, ws_row |-> 0, ws_col |-> 0] }

\* output sizes of the SDL renderer, in pixels
OutputSizes == { <<64, 32>>, <<33, 70>> }

NoGrid == [rows |-> 0, cols |-> 0, alive |-> {}, overflow |-> FALSE]

InitRender ==
    /\ file \in RenderFiles
    /\ life = life_state_import_file(life_state_init, FileNamed(file)).state
    /\ twin = life_state_init
    /\ view \in RenderViews
    /\ paused = FALSE
    /\ single_step = FALSE
    /\ running = TRUE
    /\ use_gui \in BOOLEAN
    /\ pc = "view"
    /\ tick = NoTick
    /\ screen = NoGrid
    /\ hist = [op |-> "none", keys |-> 0]

\* one key of the dispatch, on the viewport
RenderKey(ch) ==
    /\ pc = "view"
    /\ hist.keys < MaxRenderKeys
    /\ ~KeyOverflows(view, ch)
    /\ view' = ViewAfterKey(view, ch)
    /\ hist' = [op |-> ch, keys |-> hist.keys + 1]
    /\ UNCHANGED <<life, twin, paused, single_step, running, use_gui, file, pc, tick, screen>>

\* render_state_terminal in a window of size ws; an overflowing addition wraps.
\* (The 24 x 80 grid of an ioctl that fails is drawn at scale 1 only.)
RenderTerminal(ws) ==
    /\ pc = "view"
    /\ ~use_gui
    /\ ws.ok \/ view.scale = 1
    /\ screen' = render_state_terminal(life, view, ws)
    /\ pc' = "drawn"
    /\ hist' = [op |-> "terminal", keys |-> hist.keys]
    /\ UNCHANGED <<life, twin, view, paused, single_step, running, use_gui, file, tick>>

\* render_state_terminal with an addition that overflows: the trap
RenderTerminalTrap(ws) ==
    /\ pc = "view"
    /\ ~use_gui
    /\ ws.ok \/ view.scale = 1
    /\ render_state_terminal(life, view, ws).overflow
    /\ pc' = "trapped"
    /\ hist' = [op |-> "terminal", keys |-> hist.keys]
    /\ UNCHANGED <<life, twin, view, paused, single_step, running, use_gui, file, tick,
                   screen>>

\* render_state_sdl on an output of size wh; an overflowing addition wraps
RenderSdl(wh) ==
    /\ pc = "view"
    /\ use_gui
    /\ screen' = render_state_sdl(life, view, wh[1], wh[2])
    /\ pc' = "drawn"
    /\ hist' = [op |-> "sdl", keys |-> hist.keys]
    /\ UNCHANGED <<life, twin, view, paused, single_step, running, use_gui, file, tick>>

\* render_state_sdl with an addition that overflows: the trap
RenderSdlTrap(wh) ==
    /\ pc = "view"
    /\ use_gui
    /\ render_state_sdl(life, view, wh[1], wh[2]).overflow
    /\ pc' = "trapped"
    /\ hist' = [op |-> "sdl", keys |-> hist.keys]
    /\ UNCHANGED <<life, twin, view, paused, single_step, running, use_gui, file, tick,
                   screen>>

NextRender ==
    \/ \E ch \in RenderKeys : RenderKey(ch)
    \/ \E ws \in WinSizes : RenderTerminal(ws)
    \/ \E ws \in WinSizes : RenderTerminalTrap(ws)
    \/ \E wh \in OutputSizes : RenderSdl(wh)
    \/ \E wh \in OutputSizes : RenderSdlTrap(wh)

SpecRender == InitRender /\ [][NextRender]_vars

\* is a world cell of the scale x scale block of the screen cell at (row, col) of a
\* rows x cols screen in the live set L of the plane: the block whose top left corner
\* is (center_x - (cols / 2) * scale + col * scale, center_y - (rows / 2) * scale
\* + row * scale)
BlockLive(L, v, rows, cols, row, col) ==
    \E dx, dy \in 0..(v.scale - 1) :
        << PlaneAdd(v.center_x, col * v.scale - (cols \div 2) * v.scale + dx),
           PlaneAdd(v.center_y, row * v.scale - (rows \div 2) * v.scale + dy) >> \in L

\* C21: on a rows x cols screen the screen cell at (row, col) is drawn alive iff at
\* least one world coordinate of the scale x scale block whose top left corner is
\* (center_x - (cols / 2) * scale + col * scale, center_y - (rows / 2) * scale
\* + row * scale) is in the live set; at scale 1, iff that one coordinate is
C21_LossyZoomRender ==
    pc = "drawn" =>
        \E L \in {PlaneCells(Cells(life.live))} :
            \A row \in 0..(screen.rows - 1), col \in 0..(screen.cols - 1) :
                (<<row, col>> \in screen.alive)
                    <=> BlockLive(L, view, screen.rows, screen.cols, row, col)

====
